---- MODULE Spec2Model ----
(***************************************************************************)
(* onecodex.distance.DistanceMixin: alpha_diversity, beta_diversity,       *)
(* unifrac and aitchison_distance over a host object that provides the     *)
(* abundance table (to_df), normalisation detection (_guess_normalized)    *)
(* and the taxonomy tree (tree_build, tree_prune_rank).                    *)
(*                                                                         *)
(* The statistics library is deterministic, so a library call is modelled  *)
(* by the record of its arguments (the application term); only the pieces  *)
(* the module itself computes, and the library routines whose values the   *)
(* properties compare (observed_otus, chao1), are computed.                *)
(***************************************************************************)
EXTENDS Integers, Sequences, FiniteSets, TLC

\* Largest raw abundance of a table cell.
MaxVal == 2
\* Largest entry the pairwise Euclidean routine is taken to return.
MaxDist == 1
\* Largest number of lineages (children of the taxonomy root).
MaxKids == 3

\* df.index: the sample IDs, in table order.
Samples == <<"sampleA", "sampleB">>
\* The taxa of the table's columns, one genus per lineage, one species per genus.
Genera == <<"g1", "g2">>
Species == <<"s1", "s2">>
\* Names of the lineages of the taxonomy; the table's columns are the first ones.
LineageGenus == <<"g1", "g2", "g3", "g4", "g5">>
LineageSpecies == <<"s1", "s2", "s3", "s4", "s5">>

NSamples == Len(Samples)
NTaxa == Len(Genera)

RankInputs == {"auto", "genus"}
ConcreteRanks == {"genus", "species"}

Range(s) == {s[i] : i \in DOMAIN s}

BoolStr(b) == IF b THEN "True" ELSE "False"

----------------------------------------------------------------------------
\* Cells of a table.  A float is n/d * 10^e, kept in lowest terms with no
\* factor of ten left in n, so that equal numbers are equal records; a
\* boolean is the cell of a table compared with a number.

RECURSIVE GCD(_, _)
GCD(a, b) == IF b = 0 THEN a ELSE GCD(b, a % b)

RECURSIVE StripTens(_, _)
StripTens(n, e) == IF n # 0 /\ n % 10 = 0 THEN StripTens(n \div 10, e + 1) ELSE <<n, e>>

Num(n, d, e) ==
    IF n = 0 THEN [dtype |-> "float", n |-> 0, d |-> 1, e |-> 0]
    ELSE LET g == GCD(n, d)
             s == StripTens(n \div g, e)
         IN  [dtype |-> "float", n |-> s[1], d |-> d \div g, e |-> s[2]]

Bool(b) == [dtype |-> "bool", n |-> IF b THEN 1 ELSE 0, d |-> 1, e |-> 0]

Times(x, y) == Num(x.n * y.n, x.d * y.d, x.e + y.e)

IsPositive(x) == x.n > 0

\* x = k, for an integer k
IsInt(x, k) == x.e = 0 /\ x.n = k * x.d

----------------------------------------------------------------------------
\* onecodex.lib.enums: the closed sets of metric names, values() in
\* declaration order, has_value() as membership in values().

AlphaDiversityMetric == <<"simpson", "observed_taxa", "shannon", "chao1">>

BetaDiversityMetric ==
    <<"jaccard", "braycurtis", "cityblock", "manhattan",
      "weighted_unifrac", "unweighted_unifrac", "aitchison">>

has_value(enum, value) == \E i \in DOMAIN enum : enum[i] = value

\* The metric arguments a caller may pass: every name of either enum, the
\* library's own name for observed_taxa, and a name nobody knows.
MetricInputs ==
    Range(AlphaDiversityMetric) \cup Range(BetaDiversityMetric) \cup {"observed_otus", "bogus"}

----------------------------------------------------------------------------
\* The host object (self).  Nothing in this mixin assigns to it.

VARIABLES
    table,          \* raw abundance of each sample (row) in each lineage (column)
    normalized,     \* what self._guess_normalized() reports
    auto_rank,      \* the rank to_df resolves "auto" to
    lineages,       \* number of lineages in self.taxonomy
    call,           \* the call in progress or last returned: operation and arguments
    outcome,        \* "idle", "returned" or "raised"
    result,         \* the value returned, or the exception raised
    warned,         \* warnings emitted by the call
    trace,          \* collaborator and library invocations of the call, in order
    heap,           \* the TreeNode objects alive when the call returns
    heap_built,     \* the heap as tree_build() returned it
    heap_pruned,    \* the heap as tree_prune_rank() returned it
    refs,           \* the call's tree locals: tree (built), tree (pruned), new_tree
    aitchison_array,\* what euclidean_distances returned
    aitchison_dm    \* the matrix built from it, before DistanceMatrix wraps it

host_vars == <<table, normalized, auto_rank, lineages>>
call_vars == <<call, outcome, result, warned, trace, heap, heap_built, heap_pruned,
               refs, aitchison_array, aitchison_dm>>
vars == <<table, normalized, auto_rank, lineages, call, outcome, result, warned, trace,
          heap, heap_built, heap_pruned, refs, aitchison_array, aitchison_dm>>

Rows == 1..NSamples
Cols == 1..NTaxa

RECURSIVE SumTo(_, _)
SumTo(row, j) == IF j = 0 THEN 0 ELSE row[j] + SumTo(row, j - 1)

RowSum(row) == SumTo(row, NTaxa)

\* Every sample of the table has at least one read.
Tables == {t \in [Rows -> [Cols -> 0..MaxVal]] : \A i \in Rows : RowSum(t[i]) > 0}

Host == [table |-> table, normalized |-> normalized, auto_rank |-> auto_rank,
         lineages |-> lineages]

\* self._guess_normalized()
guess_normalized(H) == H.normalized

\* self.to_df(rank=rank, normalize=normalize): the table at the rank, each row
\* divided by its sum when normalize is set; "auto" resolved to a concrete
\* rank, recorded as ocx_rank.  A genus holds the reads of its one species.
to_df(H, rank, normalize) ==
    LET effective == IF rank = "auto" THEN H.auto_rank ELSE rank
    IN  [values |-> [i \in Rows |-> [j \in Cols |->
                        IF normalize THEN Num(H.table[i][j], RowSum(H.table[i]), 0)
                                     ELSE Num(H.table[i][j], 1, 0)]],
         index |-> Samples,
         keys |-> IF effective = "genus" THEN Genera ELSE Species,
         ocx_rank |-> effective]

ev_guess == <<"_guess_normalized">>
ev_to_df(rank, normalize) == <<"to_df", rank, BoolStr(normalize)>>

----------------------------------------------------------------------------
\* What a call leaves behind.

NoNode == <<>>
EmptyHeap == [id \in {} |-> id]
NoRefs == [built |-> NoNode, pruned |-> NoNode, new_tree |-> NoNode]
NoMatrix == <<>>
NoResult == [kind |-> "none"]

Frame0 ==
    [outcome |-> "idle", result |-> NoResult, warned |-> <<>>, trace |-> <<>>,
     heap |-> EmptyHeap, heap_built |-> EmptyHeap, heap_pruned |-> EmptyHeap,
     refs |-> NoRefs, aitchison_array |-> NoMatrix, aitchison_dm |-> NoMatrix]

\* raise OneCodexException("For ... diversity, metric must be one of: {}".format(
\*     ", ".join(<enum>.values())))
OneCodexException(family, enum) ==
    [kind |-> "OneCodexException",
     text |-> <<"For", family, "diversity, metric must be one of:">>,
     listed |-> enum,
     separator |-> ", "]

Raise(exc) == [Frame0 EXCEPT !.outcome = "raised", !.result = exc]

----------------------------------------------------------------------------
\* skbio.diversity.alpha_diversity(metric, counts, ids, validate=False): one
\* value per sample.  observed_otus counts the non-zero cells of the row;
\* chao1 is the bias-corrected estimator o + s(s-1) / (2(d+1)) with s the
\* cells equal to 1 and d the cells equal to 2; the other statistics are
\* left as application terms.

CountNonZero(row) == Cardinality({j \in DOMAIN row : IsPositive(row[j])})

CountEqual(row, k) == Cardinality({j \in DOMAIN row : IsInt(row[j], k)})

observed_otus(row) == Num(CountNonZero(row), 1, 0)

chao1(row) ==
    LET o == CountNonZero(row)
        s == CountEqual(row, 1)
        d == CountEqual(row, 2)
    IN  Num(o * 2 * (d + 1) + s * (s - 1), 2 * (d + 1), 0)

AlphaStat(name, row) ==
    CASE name = "observed_otus" -> [stat |-> "number", value |-> observed_otus(row), of |-> <<>>]
      [] name = "chao1" -> [stat |-> "number", value |-> chao1(row), of |-> <<>>]
      [] OTHER -> [stat |-> name, value |-> Num(0, 1, 0), of |-> row]

skbio_alpha_diversity(metric, counts, ids, validate) ==
    [routine |-> "skbio.diversity.alpha_diversity", metric |-> metric,
     counts |-> counts, ids |-> ids, validate |-> validate,
     values |-> [i \in DOMAIN counts |-> AlphaStat(metric, counts[i])]]

\* DistanceMixin.alpha_diversity ------------------------------------------

\* Variant: the metric is checked against the library's names as well.
alpha_metric_ok_skbio(metric) ==
    has_value(AlphaDiversityMetric, metric) \/ metric = "observed_otus"

\* if not AlphaDiversityMetric.has_value(metric): raise ...
alpha_metric_ok(metric) == has_value(AlphaDiversityMetric, metric)

\* if metric == "chao1": warnings.warn(..., DeprecationWarning)
alpha_warnings(metric) ==
    IF metric = "chao1"
      THEN << [category |-> "DeprecationWarning", deprecated |-> "Chao1",
               use_instead |-> "observed_taxa"] >>
      ELSE <<>>

\* skbio_metric = "observed_otus" if metric == "observed_taxa" else metric
alpha_skbio_metric(metric) == IF metric = "observed_taxa" THEN "observed_otus" ELSE metric

alpha_diversity_run(H, metric, rank) ==
    IF ~alpha_metric_ok(metric)
      THEN Raise(OneCodexException("alpha", AlphaDiversityMetric))
      ELSE
        LET normalize == guess_normalized(H)
            df == to_df(H, rank, normalize)
            output == skbio_alpha_diversity(alpha_skbio_metric(metric), df.values,
                                            df.index, "False")
        IN  [Frame0 EXCEPT
               !.outcome = "returned",
               !.warned = alpha_warnings(metric),
               !.trace = <<ev_guess, ev_to_df(rank, normalize),
                           <<output.routine, output.metric>> >>,
               !.result = [kind |-> "DataFrame", columns |-> <<metric>>,
                           index |-> df.index, data |-> output.values,
                           from |-> [routine |-> output.routine, metric |-> output.metric,
                                     counts |-> output.counts, ids |-> output.ids,
                                     validate |-> output.validate]]]

----------------------------------------------------------------------------
\* skbio.tree.TreeNode objects on a heap: id -> [name, rank, parent, children].
\* An id is <<owner, name>>: "built" for the nodes tree_build() creates,
\* "pruned" for the copies tree_prune_rank() makes, "wrap" for the node
\* unifrac creates.

TreeNode(name, rank, parent, children) ==
    [name |-> name, rank |-> rank, parent |-> parent, children |-> children]

RootName == "1"

RECURSIVE Subtree(_, _)
Subtree(h, id) ==
    {id} \cup UNION {Subtree(h, h[id].children[k]) : k \in DOMAIN h[id].children}

\* The tree below a node, as a value: what a routine that walks the tree
\* from that node downwards sees.
RECURSIVE Shape(_, _)
Shape(h, id) ==
    [name |-> h[id].name, rank |-> h[id].rank,
     children |-> [k \in DOMAIN h[id].children |-> Shape(h, h[id].children[k])]]

NoTree == [name |-> "None", rank |-> "None", children |-> <<>>]

\* self.tree_build(): a new tree of the host's taxonomy, the root with one
\* genus per lineage and one species below each genus.
tree_build(h, H) ==
    LET L == 1..H.lineages
        rid == <<"built", RootName>>
        gid(i) == <<"built", LineageGenus[i]>>
        sid(i) == <<"built", LineageSpecies[i]>>
        new == [id \in {rid} \cup {gid(i) : i \in L} \cup {sid(i) : i \in L} |->
                  IF id = rid
                    THEN TreeNode(RootName, "no rank", NoNode, [i \in L |-> gid(i)])
                  ELSE IF \E i \in L : id = gid(i)
                    THEN LET i == CHOOSE i \in L : id = gid(i)
                         IN  TreeNode(LineageGenus[i], "genus", rid, <<sid(i)>>)
                    ELSE LET i == CHOOSE i \in L : id = sid(i)
                         IN  TreeNode(LineageSpecies[i], "species", gid(i), <<>>)]
    IN  [heap |-> new @@ h, tree |-> rid]

\* self.tree_prune_rank(tree, rank): a copy of the tree that keeps the root,
\* the nodes of the rank and their ancestors.
tree_prune_rank(h, tree, rank) ==
    LET kept == {id \in Subtree(h, tree) :
                    id = tree \/ \E x \in Subtree(h, id) : h[x].rank = rank}
        copy(id) == <<"pruned", id[2]>>
        keep(c) == c \in kept
        new == [id \in {copy(k) : k \in kept} |->
                  LET k == CHOOSE k \in kept : copy(k) = id
                  IN  TreeNode(h[k].name, h[k].rank,
                               IF k = tree THEN NoNode ELSE copy(h[k].parent),
                               LET ch == SelectSeq(h[k].children, keep)
                               IN  [n \in DOMAIN ch |-> copy(ch[n])])]
    IN  [heap |-> new @@ h, tree |-> copy(tree)]

\* TreeNode.append(node): the node leaves the parent it has, takes self as
\* its parent and joins self.children.
append(h, self, node) ==
    LET old == h[node].parent
        other(c) == c # node
        h1 == IF old = NoNode THEN h
              ELSE [h EXCEPT ![old].children = SelectSeq(@, other)]
    IN  [h1 EXCEPT ![node].parent = self, ![self].children = Append(@, node)]

\* Variant: the new root takes over the children of the real root
\* (new_tree.extend(tree.children)).
wrap_by_adoption(h, tree) ==
    LET new_tree == <<"wrap", "fake root">>
        kids == h[tree].children
        h1 == (new_tree :> TreeNode("fake root", "no rank", NoNode, kids)) @@ h
    IN  [heap |-> [id \in DOMAIN h1 |->
                     IF id = tree THEN [h1[id] EXCEPT !.children = <<>>]
                     ELSE IF id \in Range(kids) THEN [h1[id] EXCEPT !.parent = new_tree]
                     ELSE h1[id]],
         tree |-> new_tree]

\* new_tree = TreeNode(name="fake root"); new_tree.rank = "no rank";
\* new_tree.append(tree)
wrap_tree(h, tree) ==
    LET new_tree == <<"wrap", "fake root">>
        h1 == (new_tree :> TreeNode("fake root", "no rank", NoNode, <<>>)) @@ h
    IN  [heap |-> append(h1, new_tree, tree), tree |-> new_tree]

----------------------------------------------------------------------------
\* skbio.diversity.beta_diversity(metric, counts, ids, validate=..., tree=...,
\* otu_ids=..., normalized=...): the distance matrix it returns is a function
\* of its arguments; an argument not passed is "default".

skbio_beta_diversity(metric, counts, ids, validate, tree, otu_ids, norm_flag) ==
    [kind |-> "skbio.diversity.beta_diversity", metric |-> metric, counts |-> counts,
     ids |-> ids, validate |-> validate, tree |-> tree, otu_ids |-> otu_ids,
     normalized |-> norm_flag]

ev_beta(metric) == <<"skbio.diversity.beta_diversity", metric>>

\* DistanceMixin.unifrac --------------------------------------------------

\* df * 10e9
ScaleFactor == Num(10, 1, 9)

rescale(values) ==
    [i \in DOMAIN values |-> [j \in DOMAIN values[i] |-> Times(values[i][j], ScaleFactor)]]

\* Variant: the table is rescaled whatever the host reports.
unifrac_counts_always(df, is_normalized) == rescale(df.values)

\* if self._guess_normalized(): df = df * 10e9
unifrac_counts(df, is_normalized) ==
    IF is_normalized THEN rescale(df.values) ELSE df.values

\* Variant: the tree is pruned to the rank the caller asked for.
unifrac_prune_rank_requested(df, rank) == rank

\* tree = self.tree_prune_rank(tree, rank=ocx_rank), ocx_rank = df.ocx_rank
unifrac_prune_rank(df, rank) == df.ocx_rank

\* tax_ids = df.keys().tolist()
unifrac_tax_ids(df) == df.keys

\* normalized=True is passed in the weighted branch only
unifrac_normalized(weighted) == IF weighted THEN "True" ELSE "default"

unifrac_metric(weighted) == IF weighted THEN "weighted_unifrac" ELSE "unweighted_unifrac"

unifrac_run(H, weighted, rank) ==
    LET normalize == guess_normalized(H)
        df == to_df(H, rank, normalize)
        ocx_rank == unifrac_prune_rank(df, rank)
        counts == unifrac_counts(df, guess_normalized(H))
        tax_ids == unifrac_tax_ids(df)
        built == tree_build(EmptyHeap, H)
        pruned == tree_prune_rank(built.heap, built.tree, ocx_rank)
        wrapped == wrap_tree(pruned.heap, pruned.tree)
    IN  [Frame0 EXCEPT
           !.outcome = "returned",
           !.trace = <<ev_guess, ev_to_df(rank, normalize), ev_guess, <<"tree_build">>,
                       <<"tree_prune_rank", ocx_rank>>, ev_beta(unifrac_metric(weighted))>>,
           !.heap = wrapped.heap,
           !.heap_built = built.heap,
           !.heap_pruned = pruned.heap,
           !.refs = [built |-> built.tree, pruned |-> pruned.tree, new_tree |-> wrapped.tree],
           !.result = skbio_beta_diversity(unifrac_metric(weighted), counts, df.index,
                          "default", Shape(wrapped.heap, wrapped.tree), tax_ids,
                          unifrac_normalized(weighted))]

\* DistanceMixin.aitchison_distance ---------------------------------------

Matrices == [Rows -> [Rows -> 0..MaxDist]]

IsSymmetric(m) == \A i, j \in DOMAIN m : m[i][j] = m[j][i]
IsHollow(m) == \A i \in DOMAIN m : m[i][i] = 0

\* Variant: the array is passed on as the routine returned it.
keep_array(a) == a

\* aitchison_dm = np.zeros(shape); aitchison_dm[triu] = aitchison_array[triu];
\* aitchison_dm = aitchison_dm + aitchison_dm.T - np.diag(np.diag(aitchison_dm))
force_mirroring(a) ==
    LET upper == [i \in DOMAIN a |-> [j \in DOMAIN a |-> IF i <= j THEN a[i][j] ELSE 0]]
        diag == [i \in DOMAIN a |-> [j \in DOMAIN a |-> IF i = j THEN upper[i][i] ELSE 0]]
    IN  [i \in DOMAIN a |-> [j \in DOMAIN a |-> upper[i][j] + upper[j][i] - diag[i][j]]]

\* skbio.stats.distance.DistanceMatrix(data, ids): rejects data that is not
\* hollow or not symmetric.
DistanceMatrix(data, ids) ==
    IF ~IsHollow(data)
      THEN [outcome |-> "raised",
            value |-> [kind |-> "DissimilarityMatrixError", data |-> data, ids |-> ids]]
    ELSE IF ~IsSymmetric(data)
      THEN [outcome |-> "raised",
            value |-> [kind |-> "DistanceMatrixError", data |-> data, ids |-> ids]]
      ELSE [outcome |-> "returned",
            value |-> [kind |-> "DistanceMatrix", data |-> data, ids |-> ids]]

\* euclid is what euclidean_distances(df_n0_clr, df_n0_clr) returns for
\* clr(multiplicative_replacement(df)).
aitchison_distance_run(H, rank, euclid) ==
    LET normalize == guess_normalized(H)
        df == to_df(H, rank, normalize)
        dm == force_mirroring(euclid)
        wrapped == DistanceMatrix(dm, df.index)
    IN  [Frame0 EXCEPT
           !.outcome = wrapped.outcome,
           !.trace = <<ev_guess, ev_to_df(rank, normalize), <<"multiplicative_replacement">>,
                       <<"clr">>, <<"euclidean_distances">>, <<"DistanceMatrix">>>>,
           !.aitchison_array = euclid,
           !.aitchison_dm = dm,
           !.result = wrapped.value]

\* DistanceMixin.beta_diversity -------------------------------------------

\* Variant: no validation.
beta_metric_ok_any(metric) == TRUE

\* if not BetaDiversityMetric.has_value(metric): raise ...
beta_metric_ok(metric) == has_value(BetaDiversityMetric, metric)

\* Variant: the abundances are passed on as they are.
jaccard_df_raw(values) == values

\* df = df > 0
jaccard_df(values) ==
    [i \in DOMAIN values |-> [j \in DOMAIN values[i] |-> Bool(IsPositive(values[i][j]))]]

\* Variant: the name is passed on as given.
beta_skbio_metric_same(metric) == metric

\* skbio_metric = "cityblock" if metric == "manhattan" else metric
beta_skbio_metric(metric) == IF metric = "manhattan" THEN "cityblock" ELSE metric

\* Variant: the chain has no branch for aitchison.
beta_dispatch_no_aitchison(metric) ==
    CASE metric = "weighted_unifrac" -> "unifrac(weighted=True)"
      [] metric = "unweighted_unifrac" -> "unifrac(weighted=False)"
      [] metric = "jaccard" -> "jaccard"
      [] OTHER -> "generic"

\* The branch of the if/elif chain the metric takes.
beta_dispatch(metric) ==
    CASE metric = "weighted_unifrac" -> "unifrac(weighted=True)"
      [] metric = "unweighted_unifrac" -> "unifrac(weighted=False)"
      [] metric = "jaccard" -> "jaccard"
      [] metric = "aitchison" -> "aitchison_distance"
      [] OTHER -> "generic"

Delegated(prefix, F) == [F EXCEPT !.trace = prefix \o @]

beta_diversity_run(H, metric, rank, euclid) ==
    IF ~beta_metric_ok(metric)
      THEN Raise(OneCodexException("beta", BetaDiversityMetric))
      ELSE
        LET normalize == guess_normalized(H)
            df == to_df(H, rank, normalize)
            before == <<ev_guess, ev_to_df(rank, normalize)>>
            branch == beta_dispatch(metric)
            values == IF branch = "jaccard" THEN jaccard_df(df.values) ELSE df.values
        IN  CASE branch = "unifrac(weighted=True)" ->
                   Delegated(before, unifrac_run(H, TRUE, rank))
              [] branch = "unifrac(weighted=False)" ->
                   Delegated(before, unifrac_run(H, FALSE, rank))
              [] branch = "aitchison_distance" ->
                   Delegated(before, aitchison_distance_run(H, rank, euclid))
              [] OTHER ->
                   [Frame0 EXCEPT
                      !.outcome = "returned",
                      !.trace = before \o <<ev_beta(beta_skbio_metric(metric))>>,
                      !.result = skbio_beta_diversity(beta_skbio_metric(metric), values,
                                     df.index, "False", NoTree, <<>>, "default")]

----------------------------------------------------------------------------

Leave(F) ==
    /\ outcome' = F.outcome
    /\ result' = F.result
    /\ warned' = F.warned
    /\ trace' = F.trace
    /\ heap' = F.heap
    /\ heap_built' = F.heap_built
    /\ heap_pruned' = F.heap_pruned
    /\ refs' = F.refs
    /\ aitchison_array' = F.aitchison_array
    /\ aitchison_dm' = F.aitchison_dm

NoCall == [op |-> "none", metric |-> "", rank |-> "", weighted |-> FALSE]

Init ==
    /\ table \in Tables
    /\ normalized \in BOOLEAN
    /\ auto_rank \in ConcreteRanks
    /\ lineages \in NTaxa..MaxKids
    /\ call = NoCall
    /\ outcome = Frame0.outcome
    /\ result = Frame0.result
    /\ warned = Frame0.warned
    /\ trace = Frame0.trace
    /\ heap = Frame0.heap
    /\ heap_built = Frame0.heap_built
    /\ heap_pruned = Frame0.heap_pruned
    /\ refs = Frame0.refs
    /\ aitchison_array = Frame0.aitchison_array
    /\ aitchison_dm = Frame0.aitchison_dm

alpha_diversity ==
    /\ outcome = "idle"
    /\ \E metric \in MetricInputs, rank \in RankInputs :
         /\ call' = [op |-> "alpha_diversity", metric |-> metric, rank |-> rank,
                     weighted |-> FALSE]
         /\ Leave(alpha_diversity_run(Host, metric, rank))
    /\ UNCHANGED host_vars

\* The caller takes the result (or handles the exception); the locals of the
\* call are gone and the next call can be made.
Return ==
    /\ outcome # "idle"
    /\ call' = NoCall
    /\ Leave(Frame0)
    /\ UNCHANGED host_vars

beta_diversity ==
    /\ outcome = "idle"
    /\ \E metric \in MetricInputs, rank \in RankInputs :
         \E euclid \in (IF metric = "aitchison" THEN Matrices ELSE {NoMatrix}) :
           /\ call' = [op |-> "beta_diversity", metric |-> metric, rank |-> rank,
                       weighted |-> FALSE]
           /\ Leave(beta_diversity_run(Host, metric, rank, euclid))
    /\ UNCHANGED host_vars

unifrac ==
    /\ outcome = "idle"
    /\ \E weighted \in BOOLEAN, rank \in RankInputs :
         /\ call' = [op |-> "unifrac", metric |-> "", rank |-> rank, weighted |-> weighted]
         /\ Leave(unifrac_run(Host, weighted, rank))
    /\ UNCHANGED host_vars

aitchison_distance ==
    /\ outcome = "idle"
    /\ \E rank \in RankInputs, euclid \in Matrices :
         /\ call' = [op |-> "aitchison_distance", metric |-> "", rank |-> rank,
                     weighted |-> FALSE]
         /\ Leave(aitchison_distance_run(Host, rank, euclid))
    /\ UNCHANGED host_vars

Next == alpha_diversity \/ beta_diversity \/ unifrac \/ aitchison_distance \/ Return

Spec == Init /\ [][Next]_vars

\* alpha_diversity and beta_diversity (with the operations it delegates to).
NextDiversity == alpha_diversity \/ beta_diversity \/ Return
SpecDiversity == Init /\ [][NextDiversity]_vars

NextUnifrac == unifrac \/ Return
SpecUnifrac == Init /\ [][NextUnifrac]_vars

NextAitchison == aitchison_distance \/ Return
SpecAitchison == Init /\ [][NextAitchison]_vars

----------------------------------------------------------------------------
\* Properties.

Called(op) == outcome # "idle" /\ call.op = op

EnumOf(op) == IF op = "alpha_diversity" THEN AlphaDiversityMetric ELSE BetaDiversityMetric

Diversity == {"alpha_diversity", "beta_diversity"}

\* The call ran unifrac, directly or through beta_diversity.
RanUnifrac == outcome # "idle" /\ refs.new_tree # NoNode

Weighted == IF call.op = "unifrac" THEN call.weighted ELSE call.metric = "weighted_unifrac"

\* The table the call read.
TheDf == to_df(Host, call.rank, normalized)

\* C1: a metric outside the applicable enum makes alpha_diversity and
\* beta_diversity raise OneCodexException, with no value returned, and the
\* message lists exactly the names the enum accepts.
C1_InvalidMetricRaises ==
    \A op \in Diversity :
      (Called(op) /\ ~has_value(EnumOf(op), call.metric)) =>
        /\ outcome = "raised"
        /\ result.kind = "OneCodexException"
        /\ result.listed = EnumOf(op)
        /\ \A m \in MetricInputs :
             (m \in Range(result.listed)) <=>
               (IF op = "alpha_diversity" THEN alpha_metric_ok(m) ELSE beta_metric_ok(m))

C1_Witness ==
    /\ Called("alpha_diversity")
    /\ call.metric = "observed_otus"
    /\ outcome = "raised"

\* C2: alpha_diversity("chao1") returns, warns of the deprecation, and its
\* per-sample values are those of alpha_diversity("observed_taxa") on the
\* same table.
C2_Chao1IsObservedTaxa ==
    (Called("alpha_diversity") /\ call.metric = "chao1") =>
      LET other == alpha_diversity_run(Host, "observed_taxa", call.rank).result
      IN  /\ outcome = "returned"
          /\ Len(warned) = 1
          /\ warned[1].category = "DeprecationWarning"
          /\ result.data = other.data

\* C3 as stated: the matrix built from the routine's output is symmetric and
\* has a zero diagonal, whatever the routine returned.
C3_SymmetricAndHollow ==
    Called("aitchison_distance") => IsSymmetric(aitchison_dm) /\ IsHollow(aitchison_dm)

\* C3: the matrix built from the routine's output A is exactly symmetric and
\* takes A's upper triangle, diagonal included: M[i][j] = M[j][i] = A[i][j]
\* for i <= j.  Its diagonal is A's, so it is zero exactly where A's is, and
\* only a matrix with a zero diagonal is returned; the others are rejected
\* by DistanceMatrix.
C3_MirrorsUpperTriangle ==
    Called("aitchison_distance") =>
      /\ IsSymmetric(aitchison_dm)
      /\ \A i, j \in Rows : i <= j => aitchison_dm[i][j] = aitchison_array[i][j]
      /\ IsHollow(aitchison_dm) <=> IsHollow(aitchison_array)
      /\ outcome = "returned" <=> IsHollow(aitchison_array)
      /\ outcome = "returned" =>
           /\ result.kind = "DistanceMatrix"
           /\ result.data = aitchison_dm
           /\ result.ids = Samples

C3_Witness ==
    /\ Called("aitchison_distance")
    /\ ~IsSymmetric(aitchison_array)
    /\ IsHollow(aitchison_array)
    /\ outcome = "returned"

\* C4 as stated: after unifrac, every node of the tree tree_build returned
\* and of the tree tree_prune_rank returned is as the host returned it.
C4_HostTreesUntouched ==
    RanUnifrac => \A id \in DOMAIN heap_pruned : heap[id] = heap_pruned[id]

\* C4: after unifrac, the tree tree_build returned is as it was returned and
\* no node of the pruned tree has gained, lost or changed a child; the one
\* change is that the root of the pruned tree has the new root as parent,
\* which leaves the tree below that root as it was.
C4_OnlyRootParentSet ==
    RanUnifrac =>
      /\ \A id \in DOMAIN heap_built : heap[id] = heap_built[id]
      /\ \A id \in DOMAIN heap_pruned \ {refs.pruned} : heap[id] = heap_pruned[id]
      /\ heap_pruned[refs.pruned].parent = NoNode
      /\ heap[refs.pruned] = [heap_pruned[refs.pruned] EXCEPT !.parent = refs.new_tree]
      /\ Shape(heap, refs.pruned) = Shape(heap_pruned, refs.pruned)

C4_Witness ==
    /\ Called("unifrac")
    /\ RanUnifrac
    /\ heap[refs.pruned].parent = refs.new_tree
    /\ heap_pruned[refs.pruned].parent = NoNode

\* C5: beta_diversity("manhattan") returns what beta_diversity("cityblock")
\* returns: the pairwise routine is called with the name cityblock on the
\* table's values and sample IDs.
C5_ManhattanIsCityblock ==
    (Called("beta_diversity") /\ call.metric = "manhattan") =>
      /\ outcome = "returned"
      /\ result = beta_diversity_run(Host, "cityblock", call.rank, NoMatrix).result
      /\ result.metric = "cityblock"
      /\ result.counts = TheDf.values
      /\ result.ids = TheDf.index

C5_Witness ==
    /\ Called("beta_diversity")
    /\ call.metric = "manhattan"
    /\ outcome = "returned"

SamePattern(t, u) == \A i \in Rows, j \in Cols : (t[i][j] > 0) <=> (u[i][j] > 0)

\* C6: for beta_diversity("jaccard") the routine is handed the boolean table
\* cell > 0, so every table with the same sample IDs and the same zero
\* pattern gives the same result.
C6_JaccardPresenceOnly ==
    (Called("beta_diversity") /\ call.metric = "jaccard") =>
      /\ outcome = "returned"
      /\ result.metric = "jaccard"
      /\ result.counts = [i \in Rows |-> [j \in Cols |-> Bool(table[i][j] > 0)]]
      /\ \A t \in Tables :
           SamePattern(t, table) =>
             beta_diversity_run([Host EXCEPT !.table = t], "jaccard", call.rank,
                                NoMatrix).result = result

C6_Witness ==
    /\ Called("beta_diversity")
    /\ call.metric = "jaccard"
    /\ outcome = "returned"
    /\ \E i \in Rows, j \in Cols : table[i][j] > 1
    /\ \E i \in Rows, j \in Cols : table[i][j] = 0

Collaborators == {"_guess_normalized", "to_df", "tree_build", "tree_prune_rank"}

StatisticsRoutines ==
    {"skbio.diversity.alpha_diversity", "skbio.diversity.beta_diversity",
     "euclidean_distances"}

Invocations(names) == {k \in DOMAIN trace : trace[k][1] \in names}

\* C7: in alpha_diversity and beta_diversity the metric is validated before
\* anything else: with a metric outside the enum no collaborator and no
\* statistics routine is invoked; with a metric of the enum the table is
\* read first and exactly one statistics routine runs.
C7_ValidationFirst ==
    \A op \in Diversity :
      Called(op) =>
        IF has_value(EnumOf(op), call.metric)
          THEN /\ outcome = "raised" => result.kind # "OneCodexException"
               /\ Len(trace) >= 3
               /\ trace[1] = ev_guess
               /\ trace[2] = ev_to_df(call.rank, normalized)
               /\ Cardinality(Invocations(StatisticsRoutines)) = 1
          ELSE /\ outcome = "raised"
               /\ trace = <<>>
               /\ Invocations(Collaborators \cup StatisticsRoutines) = {}
               /\ heap = EmptyHeap

C7_Witness ==
    /\ Called("beta_diversity")
    /\ call.metric = "bogus"
    /\ outcome = "raised"
    /\ trace = <<>>

\* What a call of the operation beta_diversity hands over to leaves behind.
DelegateOf(metric) ==
    CASE metric = "weighted_unifrac" -> unifrac_run(Host, TRUE, call.rank)
      [] metric = "unweighted_unifrac" -> unifrac_run(Host, FALSE, call.rank)
      [] metric = "aitchison" -> aitchison_distance_run(Host, call.rank, aitchison_array)

\* C8: beta_diversity returns what unifrac(weighted=True), unifrac(
\* weighted=False) and aitchison_distance return for weighted_unifrac,
\* unweighted_unifrac and aitchison, and after reading the table does
\* nothing but what the operation it delegates to does: its own pairwise
\* call is not made.
C8_DelegatesEntirely ==
    (Called("beta_diversity")
       /\ call.metric \in {"weighted_unifrac", "unweighted_unifrac", "aitchison"}) =>
      LET D == DelegateOf(call.metric)
      IN  /\ outcome = D.outcome
          /\ result = D.result
          /\ trace = <<ev_guess, ev_to_df(call.rank, normalized)>> \o D.trace
          /\ result.kind = "skbio.diversity.beta_diversity" => result.validate = "default"

C8_Witness ==
    /\ Called("beta_diversity")
    /\ call.metric = "aitchison"
    /\ outcome = "returned"
    /\ ~IsSymmetric(aitchison_array)

\* C9: the tree unifrac passes on is a new unranked root whose one child is
\* the root of the host's tree pruned to the table's effective rank
\* (df.ocx_rank), however many children that root has, and the operand IDs
\* are the table's column keys in table order.
C9_WrappedPrunedTree ==
    RanUnifrac =>
      LET built == tree_build(EmptyHeap, Host)
          pruned == tree_prune_rank(built.heap, built.tree, TheDf.ocx_rank)
      IN  /\ result.tree.name = "fake root"
          /\ result.tree.rank = "no rank"
          /\ heap[refs.new_tree].parent = NoNode
          /\ Len(result.tree.children) = 1
          /\ result.tree.children[1] = Shape(pruned.heap, pruned.tree)
          /\ result.tree.children[1].name = RootName
          /\ Len(result.tree.children[1].children) = lineages
          /\ \E k \in DOMAIN trace : trace[k] = <<"tree_prune_rank", TheDf.ocx_rank>>
          /\ result.otu_ids = TheDf.keys

C9_Witness ==
    /\ Called("unifrac")
    /\ RanUnifrac
    /\ call.rank = "auto"
    /\ auto_rank = "genus"
    /\ lineages > 2

TenToThe10 == Num(1, 1, 10)

\* C10: the values unifrac passes on are the table's values times 10^10 if
\* the host reports normalized data and the table's values as they are
\* otherwise, and the normalization flag is passed exactly when weighted.
C10_RescaledIffNormalized ==
    RanUnifrac =>
      /\ result.counts =
           [i \in Rows |-> [j \in Cols |->
              IF normalized THEN Times(TheDf.values[i][j], TenToThe10)
                            ELSE TheDf.values[i][j]]]
      /\ result.ids = TheDf.index
      /\ result.normalized = "True" <=> Weighted
      /\ result.metric = (IF Weighted THEN "weighted_unifrac" ELSE "unweighted_unifrac")

C10_Witness ==
    /\ Called("unifrac")
    /\ RanUnifrac
    /\ normalized
    /\ call.weighted
    /\ \E i \in Rows, j \in Cols : result.counts[i][j].e = 10

====
